---- MODULE Spec2Model ----
(***************************************************************************)
(* Model of the supervisor of shanexu/supervisord: the RPC handlers of     *)
(* supervisor.go driving the process manager and the per-process state     *)
(* machine.  The handlers are translated from supervisor.go.  The package  *)
(* process (Process, Manager) and the package signals are not part of the  *)
(* sources at hand; their behaviour is taken from the design document      *)
(* (sections 3, 4.3 - 4.6 and 6).                                          *)
(***************************************************************************)
EXTENDS Integers, Sequences, FiniteSets, TLC

VARIABLES
    config,     \* Supervisor.config: the descriptor of every configured program
    sup,        \* the supervisor instances of runServer and their signal handlers
    zombies,    \* exit statuses of ended children that nobody collected yet
    procs,      \* Manager.processes: the names registered in the manager
    cfg,        \* program descriptor each Process was created from
    proc,       \* Process runtime state of every name
    spawns,     \* number of spawn attempts made so far: the source of fresh
                \* pids and the time start_time reads
    keep,       \* how many of its last states a process's path keeps
    call,       \* the RPC call each client is blocked in
    reply,      \* the reply of the handler that returned in this step
    waited      \* the exit status the exit-waiter reported in this step

vars == <<config, sup, zombies, procs, cfg, proc, spawns, keep, call, reply, waited>>

----------------------------------------------------------------------------
(* Bounds of the model *)

MaxSpawns == 3      \* spawn attempts in one behaviour
MaxRetries == 1     \* largest startretries a descriptor of Programs is given
MaxPath == 9        \* longest path a process keeps
MaxSent == 1        \* signals an operator sends to one child
MaxGroupSpawns == 2 \* spawn attempts of the workers of group operations
MaxReloadSpawns == 1 \* spawn attempts up to which a reload starts programs
MaxRestarts == 1     \* Restart cycles of the supervisor

----------------------------------------------------------------------------
(* Names *)

AllProcs == {"a", "b", "c"}
Clients == {"c1", "c2"}

STOPPED == "STOPPED"
STARTING == "STARTING"
RUNNING == "RUNNING"
BACKOFF == "BACKOFF"
STOPPING == "STOPPING"
EXITED == "EXITED"
FATAL == "FATAL"
UNKNOWN == "UNKNOWN"

States == {STOPPED, STARTING, RUNNING, BACKOFF, STOPPING, EXITED, FATAL, UNKNOWN}

\* states in which a child exists
Alive == {STARTING, RUNNING, STOPPING}

\* the signal name table
SignalTable == {"TERM", "KILL"}

\* exit codes a child may end with
ExitCodes == {0, 1}

Autorestart == {"never", "always", "unexpected"}

\* group of a program (defaults to the program's own name)
GroupOf(p) == IF p \in {"a", "b"} THEN "g" ELSE p

----------------------------------------------------------------------------
(* Program descriptor *)

Descriptor(ar, secs, retries) ==
    [autorestart |-> ar, startsecs |-> secs, startretries |-> retries,
     exitcodes |-> {0}, stopsignals |-> <<"TERM">>]

\* the descriptors a configuration may hold (with startsecs 0 a process only
\* loses the exits before startsecs, so startsecs is 1 in all of them)
Programs ==
    {Descriptor(ar, 1, r) : ar \in Autorestart, r \in {0, MaxRetries}}

----------------------------------------------------------------------------
(* Process: runtime state and state machine *)

\* the last keep entries of s
Window(s) == IF Len(s) > keep THEN SubSeq(s, Len(s) - keep + 1, Len(s)) ELSE s

\* a Process as created by the manager
NewProcess ==
    [state |-> STOPPED, pid |-> 0, start_time |-> 0,
     retry_count |-> 0, admin_stopped |-> FALSE,
     sent |-> 0, stop_idx |-> 0, path |-> Window(<<STOPPED>>)]

\* a state transition: the new state is entered and recorded
ChangeStateTo(P, s) ==
    [P EXCEPT !.state = s, !.path = Window(Append(P.path, s))]

\* transition into RUNNING: retry_count is reset
EnterRunning(P) ==
    [ChangeStateTo(P, RUNNING) EXCEPT !.retry_count = 0]

\* transition into BACKOFF: no child is left, retry_count is incremented
EnterBackoff(P) ==
    [ChangeStateTo(P, BACKOFF) EXCEPT !.pid = 0,
                                      !.retry_count = P.retry_count + 1]

\* spawn a child: STARTING with the child's pid and start_time; a failed
\* spawn goes through the BACKOFF bookkeeping
Spawn(P, ok, newpid, t) ==
    LET A == [P EXCEPT !.admin_stopped = FALSE] IN
    IF ok
    THEN [ChangeStateTo(A, STARTING) EXCEPT !.pid = newpid, !.start_time = t,
                                            !.sent = 0, !.stop_idx = 0]
    ELSE EnterBackoff(A)

\* start: only from a state without a child
CanStart(P) == P.state \in {STOPPED, EXITED, FATAL, BACKOFF}

ProcessStart(P, ok, newpid, t) ==
    IF CanStart(P) THEN Spawn(P, ok, newpid, t) ELSE P

\* a signal reaches the child, if there is one: sent counts the signals
\* delivered to the current child
Deliver(P, sig) ==
    IF P.pid > 0 THEN [P EXCEPT !.sent = P.sent + 1] ELSE P

\* ProcessStop taking a RUNNING process to STOPPED without waiting for its child
ProcessStopSkipsStopping(P, D) ==
    LET A == [P EXCEPT !.admin_stopped = TRUE] IN
    CASE P.state = STARTING ->
            [Deliver(ChangeStateTo(A, STOPPING), D.stopsignals[1])
               EXCEPT !.stop_idx = 1]
      [] P.state = RUNNING ->
            [Deliver(ChangeStateTo(A, STOPPED), "KILL") EXCEPT !.pid = 0]
      [] OTHER -> A

\* ProcessStop sending the first stop signal again to a process in STOPPING
ProcessStopResends(P, D) ==
    LET A == [P EXCEPT !.admin_stopped = TRUE] IN
    IF P.state \in Alive
    THEN [Deliver(IF P.state = STOPPING THEN A ELSE ChangeStateTo(A, STOPPING),
                  D.stopsignals[1])
            EXCEPT !.stop_idx = 1]
    ELSE A

\* stop: admin_stopped is set; a process with a child goes to STOPPING and
\* gets the first stop signal; a second stop changes nothing
ProcessStop(P, D) ==
    LET A == [P EXCEPT !.admin_stopped = TRUE] IN
    IF P.state \in {STARTING, RUNNING}
    THEN [Deliver(ChangeStateTo(A, STOPPING), D.stopsignals[1])
            EXCEPT !.stop_idx = 1]
    ELSE A

\* the wait for the current stop signal elapsed and the child is alive:
\* the next stop signal, and KILL after the last one
ProcessEscalate(P, D) ==
    IF P.stop_idx < Len(D.stopsignals)
    THEN [Deliver(P, D.stopsignals[P.stop_idx + 1])
            EXCEPT !.stop_idx = P.stop_idx + 1]
    ELSE [Deliver(P, "KILL") EXCEPT !.stop_idx = P.stop_idx + 1]

\* ShouldRestart with autorestart=never taken for always
ShouldRestartNeverForgotten(D, code) ==
    CASE D.autorestart \in {"never", "always"} -> TRUE
      [] OTHER -> code \notin D.exitcodes

\* whether the autorestart policy restarts a child that ended with code
ShouldRestart(D, code) ==
    CASE D.autorestart = "never" -> FALSE
      [] D.autorestart = "always" -> TRUE
      [] OTHER -> code \notin D.exitcodes

\* ProcessChildExit with the pid left in place when the process goes to EXITED
ProcessChildExitKeepsPid(P, D, code) ==
    CASE P.state = STOPPING ->
            [ChangeStateTo(P, STOPPED) EXCEPT !.pid = 0]
      [] P.state = STARTING -> EnterBackoff(P)
      [] P.state = RUNNING ->
            IF ShouldRestart(D, code)
            THEN EnterBackoff(P)
            ELSE ChangeStateTo(P, EXITED)
      [] OTHER -> P

\* the exit-waiter reports the end of the child
ProcessChildExit(P, D, code) ==
    CASE P.state = STOPPING ->
            [ChangeStateTo(P, STOPPED) EXCEPT !.pid = 0]
      [] P.state = STARTING -> EnterBackoff(P)
      [] P.state = RUNNING ->
            IF ShouldRestart(D, code)
            THEN EnterBackoff(P)
            ELSE [ChangeStateTo(P, EXITED) EXCEPT !.pid = 0]
      [] OTHER -> P

\* whether the child of P can still end before startsecs: with startsecs 0
\* the process counts as RUNNING as soon as the spawn succeeded
EarlyExit(P, D) == P.state = STARTING /\ D.startsecs > 0

\* the child stayed alive for startsecs
ProcessStartSecs(P) ==
    IF P.state = STARTING THEN EnterRunning(P) ELSE P

\* whether the automatic step out of BACKOFF spawns a child again
Respawns(P, D) ==
    P.state = BACKOFF /\ ~P.admin_stopped /\ P.retry_count <= D.startretries

\* ProcessBackoff giving up one retry early
ProcessBackoffGivesUpEarly(P, D, ok, newpid, t) ==
    CASE P.state # BACKOFF -> P
      [] P.admin_stopped -> ChangeStateTo(P, STOPPED)
      [] P.retry_count >= D.startretries -> ChangeStateTo(P, FATAL)
      [] OTHER -> Spawn(P, ok, newpid, t)

\* ProcessBackoff without the test of admin_stopped
ProcessBackoffIgnoresStop(P, D, ok, newpid, t) ==
    CASE P.state # BACKOFF -> P
      [] P.retry_count > D.startretries -> ChangeStateTo(P, FATAL)
      [] OTHER -> [Spawn(P, ok, newpid, t) EXCEPT !.admin_stopped = P.admin_stopped]

\* the automatic step out of BACKOFF
ProcessBackoff(P, D, ok, newpid, t) ==
    CASE P.state # BACKOFF -> P
      [] P.admin_stopped -> ChangeStateTo(P, STOPPED)
      [] P.retry_count > D.startretries -> ChangeStateTo(P, FATAL)
      [] OTHER -> Spawn(P, ok, newpid, t)

----------------------------------------------------------------------------
(* Events of a process that no operator causes *)

\* no handler returned in this step
NoReply ==
    [op |-> "none", wait |-> FALSE, sig |-> "", on |-> <<>>, ended |-> <<>>,
     success |-> FALSE, err |-> "nil"]

\* no child ended in this step
NoExit == <<>>

ChildExit(p) ==
    /\ p \in procs
    /\ proc[p].pid > 0
    /\ proc[p].state = STARTING => EarlyExit(proc[p], cfg[p])
    /\ \E code \in ExitCodes :
          /\ proc' = [proc EXCEPT ![p] = ProcessChildExit(@, cfg[p], code)]
          /\ waited' = <<p, code>>
    /\ reply' = NoReply
    /\ UNCHANGED <<config, sup, zombies, procs, cfg, spawns, keep, call>>

StartSecsElapsed(p) ==
    /\ p \in procs
    /\ proc[p].state = STARTING
    /\ proc' = [proc EXCEPT ![p] = ProcessStartSecs(@)]
    /\ reply' = NoReply
    /\ waited' = NoExit
    /\ UNCHANGED <<config, sup, zombies, procs, cfg, spawns, keep, call>>

BackoffElapsed(p) ==
    /\ p \in procs
    /\ proc[p].state = BACKOFF
    /\ Respawns(proc[p], cfg[p]) => spawns < MaxSpawns
    /\ \E ok \in BOOLEAN :
          /\ proc' = [proc EXCEPT ![p] = ProcessBackoff(@, cfg[p], ok, spawns + 1, spawns + 1)]
          /\ spawns' = IF Respawns(proc[p], cfg[p]) THEN spawns + 1 ELSE spawns
    /\ reply' = NoReply
    /\ waited' = NoExit
    /\ UNCHANGED <<config, sup, zombies, procs, cfg, keep, call>>

StopWaitElapsed(p) ==
    /\ p \in procs
    /\ proc[p].state = STOPPING
    /\ proc[p].stop_idx <= Len(cfg[p].stopsignals)
    /\ proc' = [proc EXCEPT ![p] = ProcessEscalate(@, cfg[p])]
    /\ reply' = NoReply
    /\ waited' = NoExit
    /\ UNCHANGED <<config, sup, zombies, procs, cfg, spawns, keep, call>>

----------------------------------------------------------------------------
(* Manager: lookup by name *)

\* the names a client may pass: a program, group:*, group:program, and the
\* name of no program
Names == {"a", "g:*", "nosuch"}

\* a name split at its colon: <<program>> or <<group, program>>
Split(name) ==
    CASE name = "g:*" -> <<"g", "*">>
      [] name = "g:b" -> <<"g", "b">>
      [] OTHER -> <<name>>

\* whether name matches the program p
Matches(name, p) ==
    LET parts == Split(name) IN
    IF Len(parts) = 1
    THEN parts[1] = p
    ELSE GroupOf(p) = parts[1] /\ parts[2] \in {"*", p}

\* iteration order of the registry
Order == <<"a", "b", "c">>

\* the elements of a sequence
Range(list) == {list[i] : i \in 1..Len(list)}

FindMatch(name) ==
    SelectSeq(Order, LAMBDA p : p \in procs /\ Matches(name, p))

\* signals.ToSignal: the signal of a name, and whether the name is known
SigNames == SignalTable \cup {"BOGUS"}

ToSignal(name) ==
    IF name \in SignalTable
    THEN [sig |-> name, err |-> "nil"]
    ELSE [sig |-> "TERM", err |-> "BAD_SIGNAL"]

----------------------------------------------------------------------------
(* RPC handlers *)

\* a client that is in no blocking call
Idle ==
    [pc |-> "idle", op |-> "none", wait |-> FALSE, on |-> <<>>, todo |-> <<>>,
     ended |-> <<>>]

\* the world a handler works on: the processes and the spawn counter
World == [proc |-> proc, spawns |-> spawns]

\* proc.Start: the part done before any waiting
StartOne(w, p, ok) ==
    IF CanStart(w.proc[p])
    THEN [proc |-> [w.proc EXCEPT ![p] =
                       ProcessStart(@, ok, w.spawns + 1, w.spawns + 1)],
          spawns |-> w.spawns + 1]
    ELSE w

\* proc.Stop: the part done before any waiting
StopOne(w, p) ==
    [w EXCEPT !.proc[p] = ProcessStop(@, cfg[p])]

\* proc.Start(true) is over: RUNNING, or no child is left
StartDone(P) == P.state \notin {STARTING, STOPPING}

\* proc.Stop(true) is over: no child is left
StopDone(P) == P.state \notin Alive

BeginOne(op, w, p, ok) ==
    IF op = "start" THEN StartOne(w, p, ok) ELSE StopOne(w, p)

OpDone(op, P) ==
    IF op = "start" THEN StartDone(P) ELSE StopDone(P)

\* for _, proc := range procs { proc.Start(false) }, and the same of Stop
RECURSIVE BeginAll(_, _, _, _)
BeginAll(op, w, list, oks) ==
    IF list = <<>> THEN w
    ELSE BeginAll(op, BeginOne(op, w, Head(list), oks[Head(list)]), Tail(list), oks)

\* the states of the processes of list
RECURSIVE StatesOf(_, _)
StatesOf(f, list) ==
    IF list = <<>> THEN <<>>
    ELSE <<f[Head(list)].state>> \o StatesOf(f, Tail(list))

\* the loop over the matched processes, each called with blocking: to its end
\* when no call waits, and to the first call otherwise; reply.Success = true
\* follows the loop (wait is args.Wait, kept with the reply)
Loop(c, op, wait, blocking, list, oks) ==
    IF blocking
    THEN LET w == BeginOne(op, World, Head(list), oks[Head(list)]) IN
         /\ \A p \in Range(Tail(list)) : oks[p]
         /\ proc' = w.proc
         /\ spawns' = w.spawns
         /\ call' = [call EXCEPT ![c] =
               [pc |-> "waiting", op |-> op, wait |-> wait, on |-> list,
                todo |-> list, ended |-> <<>>]]
         /\ reply' = NoReply
    ELSE LET w == BeginAll(op, World, list, oks) IN
         /\ proc' = w.proc
         /\ spawns' = w.spawns
         /\ call' = call
         /\ reply' = [op |-> op, wait |-> wait, sig |-> "", on |-> list,
                      ended |-> StatesOf(w.proc, list),
                      success |-> TRUE, err |-> "nil"]

\* Fail returning nil and reply.Success = true
FailReportsSuccess(op, text) ==
    /\ reply' = [op |-> op, wait |-> FALSE, sig |-> "", on |-> <<>>,
                 ended |-> <<>>, success |-> TRUE, err |-> "nil"]
    /\ UNCHANGED <<proc, spawns, call>>

\* return fmt.Errorf(...): the error names args.Name only
Fail(op, text) ==
    /\ reply' = [op |-> op, wait |-> FALSE, sig |-> "", on |-> <<>>,
                 ended |-> <<>>, success |-> FALSE, err |-> text]
    /\ UNCHANGED <<proc, spawns, call>>

StartProcess(c, name, wait) ==
    /\ call[c].pc = "idle"
    /\ LET list == FindMatch(name) IN
       IF Len(list) <= 0
       THEN Fail("start", "fail to find process")
       ELSE /\ spawns + Len(list) <= MaxSpawns
            /\ \E oks \in [Range(list) -> BOOLEAN] :
                  Loop(c, "start", wait, wait, list, oks)
    /\ waited' = NoExit
    /\ UNCHANGED <<config, sup, zombies, procs, cfg, keep>>

\* StopProcess calling proc.Stop(false) whatever args.Wait is
StopProcessNeverWaits(c, name, wait) ==
    /\ call[c].pc = "idle"
    /\ LET list == FindMatch(name) IN
       IF Len(list) <= 0
       THEN Fail("stop", "fail to find process")
       ELSE Loop(c, "stop", wait, FALSE, list, [p \in Range(list) |-> TRUE])
    /\ waited' = NoExit
    /\ UNCHANGED <<config, sup, zombies, procs, cfg, keep>>

StopProcess(c, name, wait) ==
    /\ call[c].pc = "idle"
    /\ LET list == FindMatch(name) IN
       IF Len(list) <= 0
       THEN Fail("stop", "fail to find process")
       ELSE Loop(c, "stop", wait, wait, list, [p \in Range(list) |-> TRUE])
    /\ waited' = NoExit
    /\ UNCHANGED <<config, sup, zombies, procs, cfg, keep>>

\* the call the handler is blocked in returns: the loop goes on with the next
\* process, or the handler replies
Resume(c) ==
    /\ call[c].pc = "waiting"
    /\ LET op == call[c].op
           cur == Head(call[c].todo)
           rest == Tail(call[c].todo)
           seen == Append(call[c].ended, proc[cur].state) IN
       /\ OpDone(op, proc[cur])
       /\ IF rest = <<>>
          THEN /\ call' = [call EXCEPT ![c] = Idle]
               /\ reply' = [op |-> op, wait |-> call[c].wait, sig |-> "",
                            on |-> call[c].on,
                            ended |-> seen, success |-> TRUE, err |-> "nil"]
               /\ UNCHANGED <<proc, spawns>>
          ELSE /\ op = "start" => spawns < MaxSpawns
               /\ \E ok \in BOOLEAN :
                     LET w == BeginOne(op, World, Head(rest), ok) IN
                     /\ proc' = w.proc
                     /\ spawns' = w.spawns
               /\ call' = [call EXCEPT ![c].todo = rest, ![c].ended = seen]
               /\ reply' = NoReply
    /\ waited' = NoExit
    /\ UNCHANGED <<config, sup, zombies, procs, cfg, keep>>

RECURSIVE SignalAll(_, _, _)
SignalAll(f, list, sig) ==
    IF list = <<>> THEN f
    ELSE SignalAll([f EXCEPT ![Head(list)] = Deliver(@, sig)], Tail(list), sig)

SignalProcess(c, name, signame) ==
    /\ call[c].pc = "idle"
    /\ LET list == FindMatch(name)
           s == ToSignal(signame) IN
       IF Len(list) <= 0
       THEN /\ reply' = [op |-> "signal", wait |-> FALSE, sig |-> "",
                         on |-> <<>>, ended |-> <<>>, success |-> FALSE,
                         err |-> "No process named"]
            /\ UNCHANGED proc
       ELSE /\ \A i \in 1..Len(list) : proc[list[i]].sent < MaxSent
            /\ proc' = IF s.err = "nil" THEN SignalAll(proc, list, s.sig) ELSE proc
            /\ reply' = [op |-> "signal", wait |-> FALSE, sig |-> signame,
                         on |-> list, ended |-> StatesOf(proc, list),
                         success |-> TRUE, err |-> "nil"]
    /\ waited' = NoExit
    /\ UNCHANGED <<config, sup, zombies, procs, cfg, spawns, keep, call>>

----------------------------------------------------------------------------
(* Specification *)

\* the one supervisor instance of a run without Restart, its signal handler
\* installed
OneSupervisor ==
    [gen |-> 1, handler |-> <<"armed">>, restarting |-> FALSE,
     pos |-> "serving", exited |-> FALSE]

Init ==
    /\ keep = 0
    /\ procs = {"a"}
    /\ cfg \in {f \in [AllProcs -> Programs] :
                   \A p \in AllProcs \ {"a"} : f[p] = Descriptor("never", 1, 0)}
    /\ config = [p \in procs |-> cfg[p]]
    /\ sup = OneSupervisor
    /\ zombies = {}
    /\ proc = [p \in AllProcs |-> NewProcess]
    /\ spawns = 0
    /\ call = [c \in Clients |-> Idle]
    /\ reply = NoReply
    /\ waited = NoExit

Next ==
    \/ \E p \in AllProcs : ChildExit(p)
    \/ \E p \in AllProcs : StartSecsElapsed(p)
    \/ \E p \in AllProcs : BackoffElapsed(p)
    \/ \E p \in AllProcs : StopWaitElapsed(p)
    \/ \E c \in Clients, name \in Names, wait \in BOOLEAN : StartProcess(c, name, wait)
    \/ \E c \in Clients, name \in Names, wait \in BOOLEAN : StopProcess(c, name, wait)
    \/ \E c \in Clients : Resume(c)
    \/ \E c \in Clients, name \in Names, sig \in SigNames : SignalProcess(c, name, sig)

Spec == Init /\ [][Next]_vars

\* a client that makes no call
Absent == [Idle EXCEPT !.pc = "absent"]

\* scenario S2: one program with autorestart=unexpected, exitcodes={0},
\* startsecs=1 and startretries=2, every state change of which is kept, and
\* one client
InitS2 ==
    /\ keep = MaxPath
    /\ procs = {"a"}
    /\ cfg = [p \in AllProcs |-> Descriptor("unexpected", 1, 2)]
    /\ config = [p \in procs |-> cfg[p]]
    /\ sup = OneSupervisor
    /\ zombies = {}
    /\ proc = [p \in AllProcs |-> NewProcess]
    /\ spawns = 0
    /\ call = [c \in Clients |-> IF c = "c1" THEN Idle ELSE Absent]
    /\ reply = NoReply
    /\ waited = NoExit

\* the operator of S2 starts and stops the program and sends no signal
NextS2 ==
    \/ \E p \in AllProcs : ChildExit(p)
    \/ \E p \in AllProcs : StartSecsElapsed(p)
    \/ \E p \in AllProcs : BackoffElapsed(p)
    \/ \E p \in AllProcs : StopWaitElapsed(p)
    \/ \E c \in Clients, name \in Names, wait \in BOOLEAN : StartProcess(c, name, wait)
    \/ \E c \in Clients, name \in Names, wait \in BOOLEAN : StopProcess(c, name, wait)
    \/ \E c \in Clients : Resume(c)

SpecS2 == InitS2 /\ [][NextS2]_vars

----------------------------------------------------------------------------
(* Group operations: fan-out over the registry and a completion channel *)

\* the registered processes, in the order of the registry
Registered == SelectSeq(Order, LAMBDA p : p \in procs)

\* AsyncForEachProcess returning one less than the workers it started
AsyncForEachProcessCountsShort(list) ==
    [n |-> Len(list) - 1, work |-> [p \in Range(list) |-> "run"]]

\* Manager.AsyncForEachProcess: one worker per registered process, each
\* running fn on its process and then sending the process on the completion
\* channel; the number of workers is returned
AsyncForEachProcess(list) ==
    [n |-> Len(list), work |-> [p \in Range(list) |-> "run"]]

\* what a group operation does to a process: start or stop
Kind(op) == IF op \in {"startall", "startgroup"} THEN "start" ELSE "stop"

\* Applies without the comparison of the group
AppliesToAll(op, name, p) ==
    op \in {"startall", "stopall", "startgroup", "stopgroup"}

\* whether fn acts on p, and whether p's completion is put in the reply:
\* every process for the operations on all, proc.GetGroup() == args.Name for
\* the operations on a group
Applies(op, name, p) ==
    op \in {"startall", "stopall"} \/ GroupOf(p) = name

\* the handler up to its first receive: the channel is made, the workers are
\* started, and for i := 0; i < n; i++ is entered
Drain(c, op, wait, name) ==
    LET a == AsyncForEachProcess(Registered) IN
    /\ IF a.n <= 0
       THEN /\ reply' = [op |-> op, wait |-> wait, sig |-> "", on |-> <<>>,
                         ended |-> <<>>, success |-> TRUE, err |-> "nil"]
            /\ call' = call
       ELSE /\ reply' = NoReply
            /\ call' = [call EXCEPT ![c] =
                  [pc |-> "draining", op |-> op, wait |-> wait, on |-> <<>>,
                   todo |-> <<>>, ended |-> <<>>, name |-> name,
                   n |-> a.n, i |-> 0, work |-> a.work]]
    /\ waited' = NoExit
    /\ UNCHANGED <<config, sup, zombies, procs, cfg, proc, spawns, keep>>

StartAllProcesses(c, wait) ==
    /\ call[c].pc = "idle"
    /\ Drain(c, "startall", wait, "")

StopAllProcesses(c, wait) ==
    /\ call[c].pc = "idle"
    /\ Drain(c, "stopall", wait, "")

StartProcessGroup(c, name, wait) ==
    /\ call[c].pc = "idle"
    /\ Drain(c, "startgroup", wait, name)

StopProcessGroup(c, name, wait) ==
    /\ call[c].pc = "idle"
    /\ Drain(c, "stopgroup", wait, name)

\* proc, ok := <-finishedProcCh: the send of p's worker meets the receive of
\* the handler, which reads the process (getProcessInfo) and appends its
\* result; after the n-th receive the handler returns. f holds the processes
\* as the worker left them
Receive(c, p, f) ==
    LET r == call[c]
        kept == Applies(r.op, r.name, p)
        on == IF kept THEN Append(r.on, p) ELSE r.on
        ended == IF kept THEN Append(r.ended, f[p].state) ELSE r.ended IN
    /\ r.i < r.n
    /\ IF r.i + 1 = r.n
       THEN /\ call' = [call EXCEPT ![c] = Idle]
            /\ reply' = [op |-> r.op, wait |-> r.wait, sig |-> "", on |-> on,
                         ended |-> ended, success |-> TRUE, err |-> "nil"]
       ELSE /\ call' = [call EXCEPT ![c].work[p] = "done", ![c].on = on,
                                    ![c].ended = ended, ![c].i = r.i + 1]
            /\ reply' = NoReply

\* WorkerBegin calling proc.Start(false) / proc.Stop(false) whatever
\* args.Wait is
WorkerBeginNeverWaits(c, p) ==
    /\ call[c].pc = "draining"
    /\ p \in DOMAIN call[c].work
    /\ call[c].work[p] = "run"
    /\ LET r == call[c]
           acts == Applies(r.op, r.name, p) IN
       /\ (acts /\ Kind(r.op) = "start" /\ CanStart(proc[p])) =>
             spawns < MaxGroupSpawns
       /\ \E ok \in BOOLEAN :
             LET w == IF acts THEN BeginOne(Kind(r.op), World, p, ok) ELSE World IN
             /\ proc' = w.proc
             /\ spawns' = w.spawns
             /\ Receive(c, p, w.proc)
    /\ waited' = NoExit
    /\ UNCHANGED <<config, sup, zombies, procs, cfg, keep>>

\* the worker of p runs fn: proc.Start(args.Wait) or proc.Stop(args.Wait) if
\* fn acts on p; a call that does not wait returns at once and the worker
\* sends p
WorkerBegin(c, p) ==
    /\ call[c].pc = "draining"
    /\ p \in DOMAIN call[c].work
    /\ call[c].work[p] = "run"
    /\ LET r == call[c]
           acts == Applies(r.op, r.name, p) IN
       /\ (acts /\ Kind(r.op) = "start" /\ CanStart(proc[p])) =>
             spawns < MaxGroupSpawns
       /\ \E ok \in BOOLEAN :
             LET w == IF acts THEN BeginOne(Kind(r.op), World, p, ok) ELSE World IN
             /\ proc' = w.proc
             /\ spawns' = w.spawns
             /\ IF acts /\ r.wait
                THEN /\ call' = [call EXCEPT ![c].work[p] = "wait"]
                     /\ reply' = NoReply
                ELSE Receive(c, p, w.proc)
    /\ waited' = NoExit
    /\ UNCHANGED <<config, sup, zombies, procs, cfg, keep>>

\* proc.Start(true) or proc.Stop(true) returns in the worker of p, which
\* sends p
WorkerEnd(c, p) ==
    /\ call[c].pc = "draining"
    /\ p \in DOMAIN call[c].work
    /\ call[c].work[p] = "wait"
    /\ OpDone(Kind(call[c].op), proc[p])
    /\ Receive(c, p, proc)
    /\ waited' = NoExit
    /\ UNCHANGED <<config, sup, zombies, procs, cfg, proc, spawns, keep>>

\* two programs, a in group g and c in a group of its own, and one client
InitGroup ==
    /\ keep = 0
    /\ procs = {"a", "c"}
    /\ cfg = [p \in AllProcs |-> Descriptor("unexpected", 1, 0)]
    /\ config = [p \in procs |-> cfg[p]]
    /\ sup = OneSupervisor
    /\ zombies = {}
    /\ proc = [p \in AllProcs |-> NewProcess]
    /\ spawns = 0
    /\ call = [c \in Clients |-> IF c = "c1" THEN Idle ELSE Absent]
    /\ reply = NoReply
    /\ waited = NoExit

\* the groups a client may name
Groups == {"g", "c"}

NextGroup ==
    \/ \E p \in AllProcs : ChildExit(p)
    \/ \E p \in AllProcs : StartSecsElapsed(p)
    \/ \E p \in AllProcs : BackoffElapsed(p)
    \/ \E p \in AllProcs : StopWaitElapsed(p)
    \/ \E c \in Clients, wait \in BOOLEAN : StartAllProcesses(c, wait)
    \/ \E c \in Clients, wait \in BOOLEAN : StopAllProcesses(c, wait)
    \/ \E c \in Clients, name \in Groups, wait \in BOOLEAN : StartProcessGroup(c, name, wait)
    \/ \E c \in Clients, name \in Groups, wait \in BOOLEAN : StopProcessGroup(c, name, wait)
    \/ \E c \in Clients, p \in AllProcs : WorkerBegin(c, p)
    \/ \E c \in Clients, p \in AllProcs : WorkerEnd(c, p)

SpecGroup == InitGroup /\ [][NextGroup]_vars

----------------------------------------------------------------------------
(* Reload: the configuration file is read and applied to the registry *)

\* the programs a configuration file may name
FileNames == {"a", "b"}

\* the descriptors a file may give a program
FileDescriptors == {Descriptor("never", 1, 0), Descriptor("always", 1, 0)}

\* the configuration files a reload may read: a file gives a any
\* descriptor and b the first one
Files ==
    {f \in UNION {[S -> FileDescriptors] : S \in SUBSET FileNames} :
        "b" \in DOMAIN f => f["b"] = Descriptor("never", 1, 0)}

\* what a Load that fails may return as the programs it loaded
FailedLoads ==
    {f \in Files : \A p \in DOMAIN f : f[p] = Descriptor("never", 1, 0)}

\* s.config.GetProgramNames()
GetProgramNames(entries) == DOMAIN entries

\* s.config.Load() of file: the entries of the file are set; the entries of
\* programs that the file no longer names stay (keeps) or are dropped.
\* Reload is written for both: it calls config.RemoveProgram for the
\* programs that left the file, and createPrograms looks for previous
\* programs that GetProgramNames no longer returns
ConfigLoad(entries, file, keeps) ==
    [p \in (IF keeps THEN DOMAIN entries ELSE {}) \cup DOMAIN file |->
        IF p \in DOMAIN file THEN file[p] ELSE entries[p]]

\* s.config.RemoveProgram of every program of removed
RemovePrograms(entries, removed) ==
    [p \in DOMAIN entries \ removed |-> entries[p]]

\* util.Sub(a, b)
Sub(a, b) == a \ b

\* the registry and its processes, as a handler passes them on
Registry == [procs |-> procs, cfg |-> cfg, proc |-> proc, spawns |-> spawns]

\* procMgr.CreateProcess for every entry: the existing Process of a name is
\* returned as it is, a new one is built from the entry
CreateProcesses(r, entries) ==
    LET new == DOMAIN entries \ r.procs IN
    [r EXCEPT !.procs = r.procs \cup new,
              !.cfg = [p \in AllProcs |-> IF p \in new THEN entries[p] ELSE r.cfg[p]],
              !.proc = [p \in AllProcs |-> IF p \in new THEN NewProcess ELSE r.proc[p]]]

\* procMgr.Remove of every program of removed: the Process leaves the
\* registry and is not touched
RemoveAll(r, removed) == [r EXCEPT !.procs = r.procs \ removed]

\* createPrograms: a Process for every entry, and the previous programs
\* that GetProgramNames no longer returns leave the registry
createPrograms(r, entries, prevPrograms) ==
    RemoveAll(CreateProcesses(r, entries),
              Sub(prevPrograms, GetProgramNames(entries)))

\* procMgr.StartAutoStartPrograms: a start of every registered process of
\* a program with autostart
startAutoStartPrograms(r, auto, oks) ==
    LET list == SelectSeq(Order, LAMBDA p : p \in r.procs \cap auto)
        w == BeginAll("start", [proc |-> r.proc, spawns |-> r.spawns], list, oks) IN
    [r EXCEPT !.proc = w.proc, !.spawns = w.spawns]

\* proc := s.procMgr.Remove(removedProg); if proc != nil { proc.Stop(false) }
RemoveAndStop(r, removed) ==
    LET found == removed \cap r.procs IN
    [RemoveAll(r, removed) EXCEPT
        !.proc = [p \in AllProcs |->
                     IF p \in found THEN ProcessStop(r.proc[p], r.cfg[p])
                     ELSE r.proc[p]]]

\* Reload without the removal of the programs that left the configuration
ReloadRemovesNothing(file, keeps, loads, auto, oks) ==
    LET prevPrograms == GetProgramNames(config)
        entries == IF loads THEN ConfigLoad(config, file, keeps) ELSE config
        r == IF loads
             THEN startAutoStartPrograms(
                      createPrograms(Registry, entries, prevPrograms),
                      auto \cap DOMAIN entries, oks)
             ELSE Registry IN
    /\ r.spawns <= MaxReloadSpawns
    /\ config' = entries
    /\ procs' = r.procs
    /\ cfg' = r.cfg
    /\ proc' = r.proc
    /\ spawns' = r.spawns
    /\ reply' = [op |-> "reload", wait |-> FALSE, sig |-> "",
                 on |-> SelectSeq(Order, LAMBDA p : p \in Sub(prevPrograms, DOMAIN file)),
                 ended |-> <<>>, success |-> loads,
                 err |-> IF loads THEN "nil" ELSE "load"]
    /\ waited' = NoExit
    /\ UNCHANGED <<sup, zombies, keep, call>>

\* Reload: loads is err == nil of config.Load, file the programs Load read
\* (those it returns, also when it fails; the entries are then taken to be
\* as before), auto the programs with autostart, oks the outcome of the
\* spawns; the reply keeps removedPrograms in on
Reload(file, keeps, loads, auto, oks) ==
    LET prevPrograms == GetProgramNames(config)
        entries == IF loads THEN ConfigLoad(config, file, keeps) ELSE config
        loadedPrograms == DOMAIN file
        applied == IF loads
                   THEN startAutoStartPrograms(
                            createPrograms(Registry, entries, prevPrograms),
                            auto \cap DOMAIN entries, oks)
                   ELSE Registry
        removedPrograms == Sub(prevPrograms, loadedPrograms)
        r == RemoveAndStop(applied, removedPrograms) IN
    /\ r.spawns <= MaxReloadSpawns
    /\ config' = RemovePrograms(entries, removedPrograms)
    /\ procs' = r.procs
    /\ cfg' = r.cfg
    /\ proc' = r.proc
    /\ spawns' = r.spawns
    /\ reply' = [op |-> "reload", wait |-> FALSE, sig |-> "",
                 on |-> SelectSeq(Order, LAMBDA p : p \in removedPrograms),
                 ended |-> <<>>, success |-> loads,
                 err |-> IF loads THEN "nil" ELSE "load"]
    /\ waited' = NoExit
    /\ UNCHANGED <<sup, zombies, keep, call>>

\* a supervisor as NewSupervisor leaves it: no program is configured, the
\* registry is empty; no client calls, so that no registered process is
\* ever in STOPPING (Reload stops only what leaves the registry)
InitReload ==
    /\ keep = 0
    /\ procs = {}
    /\ cfg = [p \in AllProcs |-> Descriptor("never", 1, 0)]
    /\ config = [p \in procs |-> cfg[p]]
    /\ sup = OneSupervisor
    /\ zombies = {}
    /\ proc = [p \in AllProcs |-> NewProcess]
    /\ spawns = 0
    /\ call = [c \in Clients |-> Absent]
    /\ reply = NoReply
    /\ waited = NoExit

NextReload ==
    \/ \E p \in AllProcs : ChildExit(p)
    \/ \E p \in AllProcs : StartSecsElapsed(p)
    \/ \E p \in AllProcs : BackoffElapsed(p)
    \/ \E file \in Files, keeps \in BOOLEAN, auto \in {{}, FileNames}, ok \in BOOLEAN :
          Reload(file, keeps, TRUE, auto, [p \in FileNames |-> ok])
    \/ \E file \in FailedLoads :
          Reload(file, TRUE, FALSE, {}, [p \in FileNames |-> TRUE])

SpecReload == InitReload /\ [][NextReload]_vars

----------------------------------------------------------------------------
(* SendProcessStdin: the state is checked, then the characters are written *)

\* s.procMgr.Find(name): the registered process of that name, if any
Find(name) == SelectSeq(Order, LAMBDA p : p \in procs /\ p = name)

\* the names a client may send characters to
StdinNames == {"a", "nosuch"}

\* SendProcessStdin without the test of proc.GetState()
SendProcessStdinSkipsStateCheck(c, name) ==
    /\ call[c].pc = "idle"
    /\ LET found == Find(name) IN
       IF found = <<>>
       THEN /\ reply' = [op |-> "stdin", wait |-> FALSE, sig |-> "", on |-> <<>>,
                         ended |-> <<>>, success |-> FALSE, err |-> "NOT_RUNNING"]
            /\ call' = call
       ELSE /\ reply' = NoReply
            /\ call' = [call EXCEPT ![c] =
                  [Idle EXCEPT !.pc = "checked", !.op = "stdin", !.on = found]]
    /\ waited' = NoExit
    /\ UNCHANGED <<config, sup, zombies, procs, cfg, proc, spawns, keep>>

\* SendProcessStdin up to its call of proc.SendProcessStdin: the process is
\* looked up and its state read; the reply keeps the process found in on
SendProcessStdin(c, name) ==
    /\ call[c].pc = "idle"
    /\ LET found == Find(name) IN
       IF found = <<>>
       THEN /\ reply' = [op |-> "stdin", wait |-> FALSE, sig |-> "", on |-> <<>>,
                         ended |-> <<>>, success |-> FALSE, err |-> "NOT_RUNNING"]
            /\ call' = call
       ELSE IF proc[Head(found)].state # RUNNING
       THEN /\ reply' = [op |-> "stdin", wait |-> FALSE, sig |-> "", on |-> found,
                         ended |-> <<>>, success |-> FALSE, err |-> "NOT_RUNNING"]
            /\ call' = call
       ELSE /\ reply' = NoReply
            /\ call' = [call EXCEPT ![c] =
                  [Idle EXCEPT !.pc = "checked", !.op = "stdin", !.on = found]]
    /\ waited' = NoExit
    /\ UNCHANGED <<config, sup, zombies, procs, cfg, proc, spawns, keep>>

\* err := proc.SendProcessStdin(args.Chars) and the rest of the handler: the
\* characters go to the stdin of the child the process has now (delivered
\* says whether that write succeeds), and the handler returns err with
\* reply.Success = (err == nil); the reply keeps in ended the state of the
\* process the characters were written to
Write(c, delivered) ==
    /\ call[c].pc = "checked"
    /\ LET p == Head(call[c].on)
           written == proc[p].state \in Alive /\ delivered IN
       reply' = [op |-> "stdin", wait |-> FALSE, sig |-> "", on |-> call[c].on,
                 ended |-> IF written THEN <<proc[p].state>> ELSE <<>>,
                 success |-> written,
                 err |-> IF written THEN "nil" ELSE "write"]
    /\ call' = [call EXCEPT ![c] = Idle]
    /\ waited' = NoExit
    /\ UNCHANGED <<config, sup, zombies, procs, cfg, proc, spawns, keep>>

\* one program and two clients, which start and stop it without waiting
\* and send characters to it
InitStdin ==
    /\ keep = 0
    /\ procs = {"a"}
    /\ cfg = [p \in AllProcs |-> Descriptor("never", 1, 0)]
    /\ config = [p \in procs |-> cfg[p]]
    /\ sup = OneSupervisor
    /\ zombies = {}
    /\ proc = [p \in AllProcs |-> NewProcess]
    /\ spawns = 0
    /\ call = [c \in Clients |-> Idle]
    /\ reply = NoReply
    /\ waited = NoExit

NextStdin ==
    \/ \E p \in AllProcs : ChildExit(p)
    \/ \E p \in AllProcs : StartSecsElapsed(p)
    \/ \E p \in AllProcs : BackoffElapsed(p)
    \/ \E p \in AllProcs : StopWaitElapsed(p)
    \/ \E c \in Clients : StartProcess(c, "a", FALSE)
    \/ \E c \in Clients : StopProcess(c, "a", FALSE)
    \/ \E c \in Clients, name \in StdinNames : SendProcessStdin(c, name)
    \/ \E c \in Clients, delivered \in BOOLEAN : Write(c, delivered)

SpecStdin == InitStdin /\ [][NextStdin]_vars

----------------------------------------------------------------------------
(* Signals and Restart: runServer, initSignals and WaitForExit *)

\* whether the StopAllProcesses of the manager of instance k may return:
\* the processes of an earlier instance were all stopped when its
\* WaitForExit returned, those of the active one are the registered ones
AllStopped(k) ==
    k = sup.gen => \A p \in procs : StopDone(proc[p])

\* the manager's StopAllProcesses up to its waiting: a stop of every process
\* of the manager of instance k
ManagerStopAll(k) ==
    IF k = sup.gen
    THEN BeginAll("stop", World, Registered, [p \in procs |-> TRUE]).proc
    ELSE proc

\* Restart: s.restarting = true
Restart(c) ==
    /\ ~sup.exited
    /\ call[c].pc = "idle"
    /\ sup.gen <= MaxRestarts
    /\ sup' = [sup EXCEPT !.restarting = TRUE]
    /\ reply' = [op |-> "restart", wait |-> FALSE, sig |-> "", on |-> <<>>,
                 ended |-> <<>>, success |-> TRUE, err |-> "nil"]
    /\ waited' = NoExit
    /\ UNCHANGED <<config, zombies, procs, cfg, proc, spawns, keep, call>>

\* WaitForExit stopping the processes whatever s.IsRestarting() returns
WaitForExitWithoutRestart ==
    /\ ~sup.exited
    /\ sup.pos = "serving"
    /\ proc' = ManagerStopAll(sup.gen)
    /\ sup' = [sup EXCEPT !.pos = "stopping"]
    /\ reply' = NoReply
    /\ waited' = NoExit
    /\ UNCHANGED <<config, zombies, procs, cfg, spawns, keep, call>>

\* WaitForExit finds s.IsRestarting() and calls s.procMgr.StopAllProcesses()
WaitForExit ==
    /\ ~sup.exited
    /\ sup.pos = "serving"
    /\ sup.restarting
    /\ proc' = ManagerStopAll(sup.gen)
    /\ sup' = [sup EXCEPT !.pos = "stopping"]
    /\ reply' = NoReply
    /\ waited' = NoExit
    /\ UNCHANGED <<config, zombies, procs, cfg, spawns, keep, call>>

\* WaitForExit returns and runServer goes round its loop: NewSupervisor,
\* initSignals (one more handler, the earlier ones stay) and Reload, which
\* creates the processes of the new instance and starts those with
\* autostart
runServer(auto, ok) ==
    /\ ~sup.exited
    /\ sup.pos = "stopping"
    /\ AllStopped(sup.gen)
    /\ LET made == [p \in AllProcs |-> IF p \in procs THEN NewProcess ELSE proc[p]]
           list == SelectSeq(Order, LAMBDA p : p \in procs \cap auto)
           w == BeginAll("start", [proc |-> made, spawns |-> spawns], list,
                         [p \in procs |-> ok]) IN
       /\ w.spawns <= MaxSpawns
       /\ proc' = w.proc
       /\ spawns' = w.spawns
    /\ sup' = [sup EXCEPT !.gen = sup.gen + 1,
                          !.handler = Append(sup.handler, "armed"),
                          !.restarting = FALSE,
                          !.pos = "serving"]
    /\ reply' = NoReply
    /\ waited' = NoExit
    /\ UNCHANGED <<config, zombies, procs, cfg, keep, call>>

\* SIGINT or SIGTERM reaches the supervisor: signal.Notify passes it to the
\* channel of every handler installed
Signal ==
    /\ ~sup.exited
    /\ \E k \in DOMAIN sup.handler : sup.handler[k] = "armed"
    /\ sup' = [sup EXCEPT !.handler =
                  [k \in DOMAIN sup.handler |->
                      IF sup.handler[k] = "armed" THEN "received"
                      ELSE sup.handler[k]]]
    /\ reply' = NoReply
    /\ waited' = NoExit
    /\ UNCHANGED <<config, zombies, procs, cfg, proc, spawns, keep, call>>

\* the handler of instance k: sig := <-sigs; s.procMgr.StopAllProcesses()
HandlerReceives(k) ==
    /\ ~sup.exited
    /\ k \in DOMAIN sup.handler
    /\ sup.handler[k] = "received"
    /\ proc' = ManagerStopAll(k)
    /\ sup' = [sup EXCEPT !.handler[k] = "stopping"]
    /\ reply' = NoReply
    /\ waited' = NoExit
    /\ UNCHANGED <<config, zombies, procs, cfg, spawns, keep, call>>

\* s.procMgr.StopAllProcesses() returns in the handler of instance k:
\* os.Exit(-1)
HandlerExits(k) ==
    /\ ~sup.exited
    /\ k \in DOMAIN sup.handler
    /\ sup.handler[k] = "stopping"
    /\ AllStopped(k)
    /\ sup' = [sup EXCEPT !.exited = TRUE]
    /\ reply' = NoReply
    /\ waited' = NoExit
    /\ UNCHANGED <<config, zombies, procs, cfg, proc, spawns, keep, call>>

\* one program and one client, which starts the program and restarts the
\* supervisor
InitSig ==
    /\ keep = 0
    /\ procs = {"a"}
    /\ cfg = [p \in AllProcs |-> Descriptor("never", 1, 0)]
    /\ config = [p \in procs |-> cfg[p]]
    /\ sup = OneSupervisor
    /\ zombies = {}
    /\ proc = [p \in AllProcs |-> NewProcess]
    /\ spawns = 0
    /\ call = [c \in Clients |-> IF c = "c1" THEN Idle ELSE Absent]
    /\ reply = NoReply
    /\ waited = NoExit

\* the supervisor runs: no handler has called os.Exit
Up(A) == ~sup.exited /\ A

NextSig ==
    \/ \E p \in AllProcs : Up(ChildExit(p))
    \/ \E p \in AllProcs : Up(StartSecsElapsed(p))
    \/ \E p \in AllProcs : Up(BackoffElapsed(p))
    \/ \E p \in AllProcs : Up(StopWaitElapsed(p))
    \/ \E c \in Clients : Up(StartProcess(c, "a", FALSE))
    \/ \E c \in Clients : Restart(c)
    \/ WaitForExit
    \/ \E auto \in SUBSET procs, ok \in BOOLEAN : runServer(auto, ok)
    \/ Signal
    \/ \E k \in 1..(MaxRestarts + 1) : HandlerReceives(k)
    \/ \E k \in 1..(MaxRestarts + 1) : HandlerExits(k)

SpecSig == InitSig /\ [][NextSig]_vars

\* the operator starts the program only while no restart is under way
StartBeforeRestart(c) == ~sup.restarting /\ StartProcess(c, "a", FALSE)

\* the supervisor while no SIGINT or SIGTERM is sent to it
NextRestart ==
    \/ \E p \in AllProcs : ChildExit(p)
    \/ \E p \in AllProcs : StartSecsElapsed(p)
    \/ \E p \in AllProcs : BackoffElapsed(p)
    \/ \E p \in AllProcs : StopWaitElapsed(p)
    \/ \E c \in Clients : StartBeforeRestart(c)
    \/ \E c \in Clients : Restart(c)
    \/ WaitForExit
    \/ \E auto \in SUBSET procs, ok \in BOOLEAN : runServer(auto, ok)

\* a child that was sent KILL ends
Killed(p) == ChildExit(p) /\ proc[p].stop_idx > Len(cfg[p].stopsignals)

\* the loop of WaitForExit goes round (it sleeps 10 seconds at a time, and
\* the write of s.restarting becomes visible to it), the timers of a stop
\* elapse, a killed child ends, and runServer goes on once WaitForExit
\* returned
FairRestart ==
    /\ WF_vars(WaitForExit)
    /\ WF_vars(\E auto \in SUBSET procs, ok \in BOOLEAN : runServer(auto, ok))
    /\ \A p \in AllProcs : WF_vars(StopWaitElapsed(p))
    /\ \A p \in AllProcs : WF_vars(Killed(p))

SpecRestart == InitSig /\ [][NextRestart]_vars /\ FairRestart

----------------------------------------------------------------------------
(* ReapZombie: the reaper and the exit waiters of the processes *)

\* pids of orphaned descendants that the supervisor adopted
Orphans == {101}

\* the registered processes that own pid
Owners(pid) == {p \in procs : proc[p].pid = pid}

\* the child of p ends: its exit status waits to be consumed
ChildDies(p) ==
    /\ p \in procs
    /\ proc[p].pid > 0
    /\ \A z \in zombies : z[1] # proc[p].pid
    /\ \E code \in ExitCodes : zombies' = zombies \cup {<<proc[p].pid, code>>}
    /\ reply' = NoReply
    /\ waited' = NoExit
    /\ UNCHANGED <<config, sup, procs, cfg, proc, spawns, keep, call>>

\* an adopted descendant ends
OrphanDies(pid) ==
    /\ \A z \in zombies : z[1] # pid
    /\ \E code \in ExitCodes : zombies' = zombies \cup {<<pid, code>>}
    /\ reply' = NoReply
    /\ waited' = NoExit
    /\ UNCHANGED <<config, sup, procs, cfg, proc, spawns, keep, call>>

\* the exit waiter of p, blocked on the child of p, gets the exit status
\* and signals the state machine
WaiterClaims(p) ==
    /\ p \in procs
    /\ proc[p].state = STARTING => EarlyExit(proc[p], cfg[p])
    /\ \E z \in zombies :
          /\ z[1] = proc[p].pid
          /\ zombies' = zombies \ {z}
          /\ proc' = [proc EXCEPT ![p] = ProcessChildExit(@, cfg[p], z[2])]
          /\ waited' = <<p, z[2]>>
    /\ reply' = [NoReply EXCEPT !.op = "waiter", !.on = <<p>>]
    /\ UNCHANGED <<config, sup, procs, cfg, spawns, keep, call>>

\* the reaper, triggered by a child's termination, waits without blocking
\* for any exited child and hands (pid, exit status) to the dispatcher,
\* which routes it to the owning Process; the status is discarded if no
\* Process claims the pid. The reply keeps the Process it was routed to
ReapZombie ==
    \E z \in zombies :
       LET owners == Owners(z[1]) IN
       /\ \A p \in owners : proc[p].state = STARTING => EarlyExit(proc[p], cfg[p])
       /\ zombies' = zombies \ {z}
       /\ proc' = [p \in AllProcs |->
                      IF p \in owners THEN ProcessChildExit(proc[p], cfg[p], z[2])
                      ELSE proc[p]]
       /\ waited' = IF owners = {} THEN NoExit
                    ELSE <<CHOOSE p \in owners : TRUE, z[2]>>
       /\ reply' = [NoReply EXCEPT !.op = "reaper",
                       !.on = SelectSeq(Order, LAMBDA p : p \in owners)]
       /\ UNCHANGED <<config, sup, procs, cfg, spawns, keep, call>>

\* one program and one client, which starts and stops the program without
\* waiting
InitReap ==
    /\ keep = 0
    /\ procs = {"a"}
    /\ cfg = [p \in AllProcs |-> Descriptor("unexpected", 1, 0)]
    /\ config = [p \in procs |-> cfg[p]]
    /\ sup = OneSupervisor
    /\ zombies = {}
    /\ proc = [p \in AllProcs |-> NewProcess]
    /\ spawns = 0
    /\ call = [c \in Clients |-> IF c = "c1" THEN Idle ELSE Absent]
    /\ reply = NoReply
    /\ waited = NoExit

NextReap ==
    \/ \E p \in AllProcs : ChildDies(p)
    \/ \E pid \in Orphans : OrphanDies(pid)
    \/ \E p \in AllProcs : WaiterClaims(p)
    \/ ReapZombie
    \/ \E p \in AllProcs : StartSecsElapsed(p)
    \/ \E p \in AllProcs : BackoffElapsed(p)
    \/ \E p \in AllProcs : StopWaitElapsed(p)
    \/ \E c \in Clients : StartProcess(c, "a", FALSE)
    \/ \E c \in Clients : StopProcess(c, "a", FALSE)

SpecReap == InitReap /\ [][NextReap]_vars

----------------------------------------------------------------------------
(* Reload step by step: event listeners, programs, HTTP servers, autostart *)

\* the event listeners a configuration may have, and its HTTP servers in
\* the order startHTTPServer starts them
Listeners == {"c"}
Servers == <<"inet", "unix">>

\* the processes spawned in the behaviours of the step-by-step Reload
MaxOrderSpawns == 2

\* the members of S in the iteration order of the registry
InOrder(S) == SelectSeq(Order, LAMBDA p : p \in S)

\* one entry of kind for every element of list
Logged(kind, list) == [i \in 1..Len(list) |-> <<kind, list[i]>>]

\* a client that is in no Reload; log keeps the steps of a Reload up to
\* its return
NoReload ==
    [pc |-> "idle", op |-> "none", wait |-> FALSE, on |-> <<>>, todo |-> <<>>,
     ended |-> <<>>, loads |-> FALSE, prev |-> {}, loaded |-> {}, auto |-> {},
     listeners |-> {}, servers |-> <<>>, log |-> <<>>,
     lock |-> "free", waiting |-> FALSE, woken |-> FALSE, srv |-> "none"]

\* Reload up to `if err == nil`: the previous programs are kept and the
\* configuration is loaded (file, keeps, loads as in Reload); auto,
\* listeners and servers are the programs with autostart, the event
\* listeners and the HTTP servers of the configuration
ReloadLoad(c, file, keeps, loads, auto, listeners, servers) ==
    /\ call[c].pc = "idle"
    /\ config' = IF loads THEN ConfigLoad(config, file, keeps) ELSE config
    /\ call' = [call EXCEPT ![c] =
          [NoReload EXCEPT !.pc = IF loads THEN "listeners" ELSE "removal",
                           !.op = "reload",
                           !.loads = loads,
                           !.prev = GetProgramNames(config),
                           !.loaded = DOMAIN file,
                           !.auto = auto,
                           !.listeners = listeners,
                           !.servers = servers]]
    /\ reply' = NoReply
    /\ waited' = NoExit
    /\ UNCHANGED <<sup, zombies, procs, cfg, proc, spawns, keep>>

\* startEventListeners: CreateProcess and proc.Start(false) for every event
\* listener
startEventListeners(c, ok) ==
    /\ call[c].pc = "listeners"
    /\ LET list == InOrder(call[c].listeners)
           made == CreateProcesses(Registry,
                      [p \in call[c].listeners |-> Descriptor("never", 1, 0)])
           w == BeginAll("start", [proc |-> made.proc, spawns |-> made.spawns],
                         list, [p \in call[c].listeners |-> ok]) IN
       /\ w.spawns <= MaxOrderSpawns
       /\ procs' = made.procs
       /\ cfg' = made.cfg
       /\ proc' = w.proc
       /\ spawns' = w.spawns
       /\ call' = [call EXCEPT ![c].pc = "programs",
                               ![c].log = @ \o Logged("listen", list)]
    /\ reply' = NoReply
    /\ waited' = NoExit
    /\ UNCHANGED <<config, sup, zombies, keep>>

\* the Reload that starts the autostart programs right after createPrograms
ReloadProgramsSkipsHTTP(c) ==
    /\ call[c].pc = "programs"
    /\ LET r == createPrograms(Registry, config, call[c].prev) IN
       /\ procs' = r.procs
       /\ cfg' = r.cfg
       /\ proc' = r.proc
       /\ call' = [call EXCEPT ![c].pc = "autostart",
                               ![c].todo = <<>>,
                               ![c].log = @ \o Logged("create", InOrder(r.procs \ procs))]
    /\ reply' = NoReply
    /\ waited' = NoExit
    /\ UNCHANGED <<config, sup, zombies, spawns, keep>>

\* s.createPrograms(prevPrograms); startHTTPServer is next, with every
\* configured server to start
ReloadPrograms(c) ==
    /\ call[c].pc = "programs"
    /\ LET r == createPrograms(Registry, config, call[c].prev) IN
       /\ procs' = r.procs
       /\ cfg' = r.cfg
       /\ proc' = r.proc
       /\ call' = [call EXCEPT ![c].pc = "http",
                               ![c].todo = call[c].servers,
                               ![c].log = @ \o Logged("create", InOrder(r.procs \ procs))]
    /\ reply' = NoReply
    /\ waited' = NoExit
    /\ UNCHANGED <<config, sup, zombies, spawns, keep>>

\* what no step of startHTTPServer and of its servers changes
HTTPUnchanged ==
    /\ reply' = NoReply
    /\ waited' = NoExit
    /\ UNCHANGED <<config, sup, zombies, procs, cfg, proc, spawns, keep>>

\* startHTTPServer launching the server before it locks cond.L
startHTTPServerLocksLate(c) ==
    /\ call[c].pc = "http"
    /\ IF call[c].todo = <<>>
       THEN call' = [call EXCEPT ![c].pc = "autostart"]
       ELSE call' = [call EXCEPT ![c].pc = "launched",
                                 ![c].lock = "free",
                                 ![c].waiting = FALSE,
                                 ![c].woken = FALSE,
                                 ![c].srv = "launched"]
    /\ HTTPUnchanged

\* startHTTPServer at its next server: cond := sync.NewCond(&sync.Mutex{});
\* cond.L.Lock(); go s.xmlRPC.Start...HTTPServer(..., callback); with no
\* server left it returns
startHTTPServer(c) ==
    /\ call[c].pc = "http"
    /\ IF call[c].todo = <<>>
       THEN call' = [call EXCEPT ![c].pc = "autostart"]
       ELSE call' = [call EXCEPT ![c].pc = "launched",
                                 ![c].lock = "caller",
                                 ![c].waiting = FALSE,
                                 ![c].woken = FALSE,
                                 ![c].srv = "launched"]
    /\ HTTPUnchanged

\* cond.Wait() begins: the caller joins the waiters of cond and unlocks
\* cond.L (sync.Cond requires the caller to hold it)
CondWait(c) ==
    /\ call[c].pc = "launched"
    /\ call' = [call EXCEPT ![c].pc = "waiting",
                            ![c].waiting = TRUE,
                            ![c].lock = IF @ = "caller" THEN "free" ELSE @]
    /\ HTTPUnchanged

\* the server invokes its started-callback: cond.L.Lock()
CallbackLock(c) ==
    /\ call[c].pc \in {"launched", "waiting"}
    /\ call[c].srv = "launched"
    /\ call[c].lock = "free"
    /\ call' = [call EXCEPT ![c].srv = "locked", ![c].lock = "server"]
    /\ HTTPUnchanged

\* cond.Signal(): one waiter is woken, if there is one
CallbackSignal(c) ==
    /\ call[c].pc \in {"launched", "waiting"}
    /\ call[c].srv = "locked"
    /\ call' = [call EXCEPT ![c].srv = "signalled",
                            ![c].woken = call[c].waiting \/ @,
                            ![c].waiting = FALSE,
                            ![c].log = Append(@, <<"signal", Head(call[c].todo)>>)]
    /\ HTTPUnchanged

\* cond.L.Unlock() of the callback
CallbackUnlock(c) ==
    /\ call[c].pc \in {"launched", "waiting"}
    /\ call[c].srv = "signalled"
    /\ call' = [call EXCEPT ![c].srv = "done", ![c].lock = "free"]
    /\ HTTPUnchanged

\* cond.Wait() returns: the woken caller locks cond.L again and goes on to
\* the next server (the deferred cond.L.Unlock() runs when startHTTPServer
\* returns)
CondWake(c) ==
    /\ call[c].pc = "waiting"
    /\ call[c].woken
    /\ call[c].lock = "free"
    /\ call' = [call EXCEPT ![c].pc = "http",
                            ![c].todo = Tail(@),
                            ![c].lock = "caller",
                            ![c].woken = FALSE]
    /\ HTTPUnchanged

\* s.startAutoStartPrograms(), to its return
ReloadAutoStart(c, ok) ==
    /\ call[c].pc = "autostart"
    /\ LET auto == call[c].auto \cap DOMAIN config
           started == InOrder({p \in procs \cap auto : CanStart(proc[p])})
           r == startAutoStartPrograms(Registry, auto, [p \in AllProcs |-> ok]) IN
       /\ r.spawns <= MaxOrderSpawns
       /\ proc' = r.proc
       /\ spawns' = r.spawns
       /\ call' = [call EXCEPT ![c].pc = "removal",
                               ![c].log = @ \o Logged("autostart", started)
                                            \o <<<<"swept", "">>>>]
    /\ reply' = NoReply
    /\ waited' = NoExit
    /\ UNCHANGED <<config, sup, zombies, procs, cfg, keep>>

\* the rest of Reload: the programs that left the configuration are removed
\* and stopped, and Reload returns
ReloadRemoval(c) ==
    /\ call[c].pc = "removal"
    /\ LET removedPrograms == Sub(call[c].prev, call[c].loaded)
           r == RemoveAndStop(Registry, removedPrograms) IN
       /\ config' = RemovePrograms(config, removedPrograms)
       /\ procs' = r.procs
       /\ proc' = r.proc
       /\ call' = [call EXCEPT ![c] = NoReload]
       /\ reply' = [op |-> "reload", wait |-> FALSE, sig |-> "",
                    on |-> InOrder(removedPrograms),
                    ended |-> <<>>, success |-> call[c].loads,
                    err |-> IF call[c].loads THEN "nil" ELSE "load"]
    /\ waited' = NoExit
    /\ UNCHANGED <<sup, zombies, cfg, spawns, keep>>

\* a supervisor as NewSupervisor leaves it, and the one caller of Reload
InitOrder ==
    /\ keep = 0
    /\ procs = {}
    /\ cfg = [p \in AllProcs |-> Descriptor("never", 1, 0)]
    /\ config = [p \in procs |-> cfg[p]]
    /\ sup = OneSupervisor
    /\ zombies = {}
    /\ proc = [p \in AllProcs |-> NewProcess]
    /\ spawns = 0
    /\ call = [c \in Clients |-> IF c = "c1" THEN NoReload ELSE Absent]
    /\ reply = NoReply
    /\ waited = NoExit

\* the configuration files of the step-by-step Reload: with program a or
\* with no program
OrderFiles == {f \in FailedLoads : DOMAIN f \subseteq {"a"}}

NextOrder ==
    \/ \E p \in AllProcs : ChildExit(p)
    \/ \E p \in AllProcs : StartSecsElapsed(p)
    \/ \E p \in AllProcs : BackoffElapsed(p)
    \/ \E c \in Clients, file \in OrderFiles, loads \in BOOLEAN,
          keeps \in BOOLEAN, auto \in {{}, FileNames},
          listeners \in SUBSET Listeners, servers \in {<<>>, Servers} :
          ReloadLoad(c, file, keeps, loads, auto, listeners, servers)
    \/ \E c \in Clients : startEventListeners(c, TRUE)
    \/ \E c \in Clients : ReloadPrograms(c)
    \/ \E c \in Clients : startHTTPServer(c)
    \/ \E c \in Clients : CondWait(c)
    \/ \E c \in Clients : CallbackLock(c)
    \/ \E c \in Clients : CallbackSignal(c)
    \/ \E c \in Clients : CallbackUnlock(c)
    \/ \E c \in Clients : CondWake(c)
    \/ \E c \in Clients : ReloadAutoStart(c, TRUE)
    \/ \E c \in Clients : ReloadRemoval(c)

SpecOrder == InitOrder /\ [][NextOrder]_vars

----------------------------------------------------------------------------
(* GetProcessInfo and GetAllProcessInfo: getProcessInfo read by read *)

\* the ProcessState codes of package process
StateCode ==
    [s \in States |->
       CASE s = STOPPED -> 0
         [] s = STARTING -> 10
         [] s = RUNNING -> 20
         [] s = BACKOFF -> 30
         [] s = STOPPING -> 40
         [] s = EXITED -> 100
         [] s = FATAL -> 200
         [] OTHER -> 1000]

\* ProcessState.String()
String(s) == s

\* the names a client may ask about
InfoNames == {"a", "nosuch"}

\* a ProcessInfo of which no field is filled in yet
EmptyInfo == [name |-> "", state |-> 0, statename |-> "", pid |-> 0]

\* a client inside getProcessInfo for the head of todo
InfoCall(pc, op, todo, info, infos) ==
    [pc |-> pc, op |-> op, wait |-> FALSE, on |-> <<>>, todo |-> todo,
     ended |-> <<>>, info |-> info, infos |-> infos]

\* the reply with the ProcessInfo structures of an RPC
InfoReply(op, infos, err) ==
    [op |-> op, wait |-> FALSE, sig |-> "", on |-> <<>>, ended |-> <<>>,
     success |-> err = "nil", err |-> err, infos |-> infos]

\* types.SortProcessInfos: by group and name, which is the registry order
\* for the descriptors used here
SortProcessInfos(infos) ==
    LET At(p) == {i \in 1..Len(infos) : infos[i].name = p}
        Sorted == SelectSeq(Order, LAMBDA p : At(p) # {}) IN
    [i \in 1..Len(Sorted) |-> infos[CHOOSE n \in At(Sorted[i]) : TRUE]]

\* GetProcessInfo up to the call of getProcessInfo
GetProcessInfo(c, name) ==
    /\ call[c].pc = "idle"
    /\ LET found == Find(name) IN
       IF found = <<>>
       THEN /\ reply' = InfoReply("info", <<>>, "BAD_NAME")
            /\ call' = call
       ELSE /\ reply' = NoReply
            /\ call' = [call EXCEPT ![c] =
                  InfoCall("State", "info", found,
                           [EmptyInfo EXCEPT !.name = Head(found)], <<>>)]
    /\ waited' = NoExit
    /\ UNCHANGED <<config, sup, zombies, procs, cfg, proc, spawns, keep>>

\* GetAllProcessInfo up to the first call of getProcessInfo
GetAllProcessInfo(c) ==
    /\ call[c].pc = "idle"
    /\ LET all == InOrder(procs) IN
       IF all = <<>>
       THEN /\ reply' = InfoReply("allinfo", <<>>, "nil")
            /\ call' = call
       ELSE /\ reply' = NoReply
            /\ call' = [call EXCEPT ![c] =
                  InfoCall("State", "allinfo", all,
                           [EmptyInfo EXCEPT !.name = Head(all)], <<>>)]
    /\ waited' = NoExit
    /\ UNCHANGED <<config, sup, zombies, procs, cfg, proc, spawns, keep>>

\* what no read of getProcessInfo changes
InfoUnchanged ==
    /\ waited' = NoExit
    /\ UNCHANGED <<config, sup, zombies, procs, cfg, proc, spawns, keep>>

\* State: int(proc.GetState())
ReadState(c) ==
    /\ call[c].pc = "State"
    /\ call' = [call EXCEPT ![c].pc = "Statename",
                            ![c].info.state = StateCode[proc[Head(call[c].todo)].state]]
    /\ reply' = NoReply
    /\ InfoUnchanged

\* Statename: proc.GetState().String()
ReadStatename(c) ==
    /\ call[c].pc = "Statename"
    /\ call' = [call EXCEPT ![c].pc = "Pid",
                            ![c].info.statename = String(proc[Head(call[c].todo)].state)]
    /\ reply' = NoReply
    /\ InfoUnchanged

\* Pid: proc.GetPid(); getProcessInfo returns, and the handler goes on to
\* the next process or returns its reply
ReadPid(c) ==
    /\ call[c].pc = "Pid"
    /\ LET info == [call[c].info EXCEPT !.pid = proc[Head(call[c].todo)].pid]
           infos == Append(call[c].infos, info)
           rest == Tail(call[c].todo) IN
       IF rest = <<>>
       THEN /\ reply' = InfoReply(call[c].op, SortProcessInfos(infos), "nil")
            /\ call' = [call EXCEPT ![c] = Idle]
       ELSE /\ reply' = NoReply
            /\ call' = [call EXCEPT ![c] =
                  InfoCall("State", call[c].op, rest,
                           [EmptyInfo EXCEPT !.name = Head(rest)], infos)]
    /\ InfoUnchanged

\* two registered programs, a client that asks for ProcessInfo (c1) and
\* one that starts and stops program a (c2)
InitInfo ==
    /\ keep = 0
    /\ procs = {"a", "b"}
    /\ cfg = [p \in AllProcs |-> Descriptor("never", 1, 0)]
    /\ config = [p \in procs |-> cfg[p]]
    /\ sup = OneSupervisor
    /\ zombies = {}
    /\ proc = [p \in AllProcs |-> NewProcess]
    /\ spawns = 0
    /\ call = [c \in Clients |-> Idle]
    /\ reply = NoReply
    /\ waited = NoExit

NextInfo ==
    \/ \E p \in AllProcs : ChildExit(p)
    \/ \E p \in AllProcs : StartSecsElapsed(p)
    \/ \E p \in AllProcs : BackoffElapsed(p)
    \/ \E p \in AllProcs : StopWaitElapsed(p)
    \/ StartProcess("c2", "a", FALSE)
    \/ StopProcess("c2", "a", FALSE)
    \/ \E name \in InfoNames : GetProcessInfo("c1", name)
    \/ GetAllProcessInfo("c1")
    \/ ReadState("c1")
    \/ ReadStatename("c1")
    \/ ReadPid("c1")

SpecInfo == InitInfo /\ [][NextInfo]_vars

----------------------------------------------------------------------------
(* Properties *)

\* the step is an operator start reaching proc.Start of p: a start handler
\* that returned, or one that is now blocked in proc.Start(true) of p
StartIssuedOn(p) ==
    \/ /\ reply'.op = "start"
       /\ ~reply'.wait
       /\ p \in Range(reply'.on)
    \/ \E c \in Clients :
          /\ call'[c] # call[c]
          /\ call'[c].pc = "waiting"
          /\ call'[c].op = "start"
          /\ Head(call'[c].todo) = p

\* the state changes the table of section 4.3 lists: start, the rows of
\* STARTING, RUNNING and STOPPING, the automatic respawn, a failed spawn
\* (from any state a start is taken in) and the end of the retries
TransitionTable ==
    {<<s, STARTING>> : s \in {STOPPED, EXITED, FATAL, BACKOFF}}
      \cup {<<STARTING, RUNNING>>, <<STARTING, BACKOFF>>, <<STARTING, STOPPING>>,
            <<RUNNING, STOPPING>>, <<RUNNING, EXITED>>, <<RUNNING, BACKOFF>>,
            <<STOPPING, STOPPED>>, <<STOPPING, STOPPING>>,
            <<BACKOFF, STARTING>>, <<BACKOFF, FATAL>>}
      \cup {<<s, BACKOFF>> : s \in {STOPPED, EXITED, FATAL, BACKOFF}}

\* the table with the change the stop of a process in BACKOFF ends in
TransitionTableWithStop == TransitionTable \cup {<<BACKOFF, STOPPED>>}

\* C1: start_process(name, wait=true) reports Success only if the process
\* reached RUNNING, and reports SPAWN_ERROR when the start attempt ended in
\* FATAL or BACKOFF
C1_StartWaitReportsOutcome ==
    (reply.op = "start" /\ reply.wait /\ reply.on # <<>>) =>
        \A i \in 1..Len(reply.ended) :
            /\ reply.success => reply.ended[i] = RUNNING
            /\ reply.ended[i] \in {FATAL, BACKOFF} =>
                  (~reply.success /\ reply.err = "SPAWN_ERROR")

\* C2: for every process and in every reachable state, pid > 0 if and only
\* if the state is STARTING, RUNNING or STOPPING
C2_PidIffAlive ==
    \A p \in AllProcs : proc[p].pid > 0 <=> proc[p].state \in Alive

\* a process the child of which ended: EXITED, without a pid, started before
C2_Witness ==
    /\ proc["a"].state = EXITED
    /\ proc["a"].pid = 0
    /\ proc["a"].start_time > 0
    /\ waited # NoExit

\* C3 as stated: every state change of a process is a transition of the
\* table of section 4.3
C3_OnlyTableTransitions ==
    [][\A p \in AllProcs :
          proc'[p].state # proc[p].state =>
              <<proc[p].state, proc'[p].state>> \in TransitionTable]_vars

\* C3: every state change of a process is a transition of the table of
\* section 4.3 or the change from BACKOFF to STOPPED that follows an operator
\* stop of a process in BACKOFF
C3_TableOrStoppedFromBackoff ==
    [][\A p \in AllProcs :
          proc'[p].state # proc[p].state =>
              /\ <<proc[p].state, proc'[p].state>> \in TransitionTableWithStop
              /\ <<proc[p].state, proc'[p].state>> = <<BACKOFF, STOPPED>> =>
                    proc[p].admin_stopped]_vars

\* a process stopped by its operator out of BACKOFF: STOPPED after a failed
\* start, and no stop signal went to a child since the last spawn
C3_Witness ==
    /\ proc["a"].state = STOPPED
    /\ proc["a"].admin_stopped
    /\ proc["a"].retry_count > 0
    /\ proc["a"].stop_idx = 0

\* the path of scenario S2: three starts, each ended before startsecs
S2Path ==
    <<STOPPED, STARTING, BACKOFF, STARTING, BACKOFF, STARTING, BACKOFF, FATAL>>

\* a complete path on which every spawn succeeded, no child lived for
\* startsecs and no operator stopped or restarted the process out of FATAL
FailedStartsOnly(P) ==
    /\ Len(P.path) < keep
    /\ P.path[1] = STOPPED
    /\ \A i \in 2..Len(P.path) :
          /\ P.path[i] \in {STARTING, BACKOFF, FATAL}
          /\ P.path[i] = BACKOFF => P.path[i - 1] = STARTING
          /\ P.path[i] = FATAL => i = Len(P.path)

\* C4: with autorestart=unexpected, exitcodes={0} and startretries=2, a
\* running child that exits with code 0 leaves the process EXITED and one
\* that exits with another code leaves it in BACKOFF; a child that exits
\* before startsecs leaves it in BACKOFF with retry_count incremented; the
\* automatic step out of BACKOFF respawns while retry_count <= startretries
\* and goes to FATAL once retry_count > startretries; a process that only
\* ever failed to start is FATAL after exactly STARTING, BACKOFF, STARTING,
\* BACKOFF, STARTING, BACKOFF, FATAL, with retry_count = 3
C4_UnexpectedRetriesThenFatal ==
    /\ [](\A p \in procs :
            (proc[p].state = FATAL /\ FailedStartsOnly(proc[p])) =>
                /\ Len(proc[p].path) >= Len(S2Path)
                /\ SubSeq(proc[p].path, 1, Len(S2Path) - 1)
                      = SubSeq(S2Path, 1, Len(S2Path) - 1)
                /\ Len(proc[p].path) = Len(S2Path) =>
                      (proc[p].path = S2Path /\ proc[p].retry_count = 3))
    /\ [][\A p \in procs :
            /\ (proc[p].state = RUNNING /\ waited' = <<p, 0>>) =>
                  proc'[p].state = EXITED
            /\ (proc[p].state = RUNNING /\ waited' = <<p, 1>>) =>
                  proc'[p].state = BACKOFF
            /\ (proc[p].state = STARTING /\ waited' # NoExit /\ waited'[1] = p) =>
                  /\ proc'[p].state = BACKOFF
                  /\ proc'[p].retry_count = proc[p].retry_count + 1
            /\ (proc[p].state = BACKOFF /\ proc'[p].state = FATAL) =>
                  proc[p].retry_count > cfg[p].startretries
            /\ (proc[p].state = BACKOFF /\ proc'[p].state = STARTING
                  /\ ~StartIssuedOn(p)) =>
                  proc[p].retry_count <= cfg[p].startretries]_vars

\* scenario S2 at its end
C4_Witness ==
    /\ proc["a"].state = FATAL
    /\ proc["a"].path = S2Path
    /\ proc["a"].retry_count = 3
    /\ cfg["a"].autorestart = "unexpected"

C6_StopWaitEndsNotAlive ==
    (reply.op = "stop" /\ reply.wait /\ reply.on # <<>>) =>
        /\ Len(reply.ended) = Len(reply.on)
        /\ \A i \in 1..Len(reply.ended) : reply.ended[i] \notin Alive

\* stop_process(wait=true) returned for a child that went through every stop
\* signal and was sent KILL
C6_Witness ==
    /\ reply.op = "stop"
    /\ reply.wait
    /\ reply.on = <<"a">>
    /\ reply.ended = <<STOPPED>>
    /\ proc["a"].stop_idx > Len(cfg["a"].stopsignals)

\* C7: with autorestart=never, a running child that ends with a code of
\* exitcodes leaves the process EXITED, and the process leaves EXITED only
\* in a step that is an operator start
C7_NeverStaysExited ==
    [][\A p \in procs :
          cfg[p].autorestart = "never" =>
              /\ (proc[p].state = RUNNING /\ waited' # NoExit /\ waited'[1] = p
                    /\ waited'[2] \in cfg[p].exitcodes) =>
                    proc'[p].state = EXITED
              /\ (proc[p].state = EXITED /\ proc'[p].state # EXITED) =>
                    StartIssuedOn(p)]_vars

\* the clean exit of a running child under autorestart=never
C7_Witness ==
    /\ cfg["a"].autorestart = "never"
    /\ waited = <<"a", 0>>
    /\ proc["a"].state = EXITED

\* C8: start_process on a process that is RUNNING returns ALREADY_STARTED
\* and changes nothing of the process and spawns no child
C8_StartOnRunningRefused ==
    [][\A p \in procs :
          (proc[p].state = RUNNING /\ reply'.op = "start" /\ ~reply'.wait
             /\ reply'.on = <<p>>) =>
              /\ reply'.err = "ALREADY_STARTED"
              /\ ~reply'.success
              /\ proc'[p] = proc[p]
              /\ spawns' = spawns]_vars

\* C9: signal_process on a process that has no running child returns
\* NOT_RUNNING, delivers no signal and changes no state
C9_SignalNotRunningRefused ==
    [][\A p \in procs :
          (proc[p].state \notin Alive /\ reply'.op = "signal"
             /\ reply'.on = <<p>>) =>
              /\ reply'.err = "NOT_RUNNING"
              /\ ~reply'.success
              /\ proc' = proc]_vars

\* C10: signal_process with the name of a process and a signal name that is
\* not in the signal table fails with BAD_SIGNAL, does not report Success
\* and delivers no signal
C10_UnknownSignalRefused ==
    [][(reply'.op = "signal" /\ reply'.on # <<>>
          /\ reply'.sig \notin SignalTable) =>
            /\ reply'.err = "BAD_SIGNAL"
            /\ ~reply'.success
            /\ proc' = proc]_vars

\* the step is an operator stop reaching proc.Stop of p: a stop handler that
\* returned, or one that is now blocked in proc.Stop(true) of p
StopIssuedOn(p) ==
    \/ /\ reply'.op = "stop"
       /\ ~reply'.wait
       /\ p \in Range(reply'.on)
    \/ \E c \in Clients :
          /\ call'[c] # call[c]
          /\ call'[c].pc = "waiting"
          /\ call'[c].op = "stop"
          /\ Head(call'[c].todo) = p

C12_NoMatchChangesNothing ==
    [][(reply'.op \in {"start", "stop", "signal"} /\ reply'.on = <<>>) =>
          /\ reply'.err # "nil"
          /\ ~reply'.success
          /\ UNCHANGED <<config, sup, zombies, procs, cfg, proc, spawns, call>>]_vars

\* a handler found no process of the name while a process was running
C12_Witness ==
    /\ reply.op \in {"start", "stop"}
    /\ reply.on = <<>>
    /\ reply.err = "fail to find process"
    /\ proc["a"].state = RUNNING

\* the handler of client c returns from its drain loop in this step
Returns(c) == call[c].pc = "draining" /\ call'[c].pc = "idle"

\* the workers of the call of client c that have not sent yet
Unsent(c) == {p \in DOMAIN call[c].work : call[c].work[p] # "done"}

\* C13 as stated: when start_all_processes(wait=true) returns, every
\* registered process is RUNNING or FATAL
C13_StartAllEndsRunningOrFatal ==
    (reply.op = "startall" /\ reply.wait) =>
        \A p \in procs : proc[p].state \in {RUNNING, FATAL}

\* C13: start_all_processes(wait=true) returns only after the start of
\* every registered process has returned, and each process was then out of
\* STARTING and STOPPING: RUNNING, or without a child (BACKOFF, FATAL,
\* EXITED or STOPPED)
C13_StartAllEndsEveryStart ==
    (reply.op = "startall" /\ reply.wait) =>
        /\ Range(reply.on) = procs
        /\ Len(reply.on) = Cardinality(procs)
        /\ \A i \in 1..Len(reply.ended) :
              reply.ended[i] \in {RUNNING, BACKOFF, FATAL, EXITED, STOPPED}

\* start_all_processes(wait=true) returned with one process RUNNING and the
\* other in BACKOFF
C13_Witness ==
    /\ reply.op = "startall"
    /\ reply.wait
    /\ Len(reply.ended) = 2
    /\ RUNNING \in Range(reply.ended)
    /\ BACKOFF \in Range(reply.ended)

\* C14: in a group operation the number n of AsyncForEachProcess is the
\* number of workers; the receives still to come are as many as the workers
\* that have not sent, so the drain loop is never left waiting without a
\* worker to send; the handler returns at the n-th receive, when no worker
\* is left, and the reply of the operations on all processes holds every
\* registered process exactly once
C14_DrainsEveryWorker ==
    /\ [](\A c \in Clients :
            call[c].pc = "draining" =>
                /\ call[c].n = Cardinality(DOMAIN call[c].work)
                /\ call[c].n - call[c].i = Cardinality(Unsent(c))
                /\ call[c].i < call[c].n)
    /\ [][\A c \in Clients :
            Returns(c) =>
                /\ call[c].i + 1 = call[c].n
                /\ Cardinality(Unsent(c)) = 1
                /\ reply'.op = call[c].op
                /\ reply'.op \in {"startall", "stopall"} =>
                      /\ Range(reply'.on) = procs
                      /\ Len(reply'.on) = Cardinality(procs)]_vars

\* stop_all_processes(wait=true) returned with the results of both
\* processes, one of which had to be stopped
C14_Witness ==
    /\ reply.op = "stopall"
    /\ reply.wait
    /\ Len(reply.on) = 2
    /\ Range(reply.on) = {"a", "c"}
    /\ \E p \in procs : proc[p].state = STOPPED /\ proc[p].stop_idx > 0

\* C15: start_process_group and stop_process_group act on the members of
\* the group only: no step of the call changes a process of another group;
\* the worker of a member that can be started starts it; the reply holds
\* every member exactly once and no other process; and when
\* start_process_group(wait=true) returns, every member that was not
\* stopped and the children of which stayed alive is RUNNING
C15_GroupOnly ==
    [][\A c \in Clients :
          (call[c].pc = "draining" /\ call[c].op \in {"startgroup", "stopgroup"}
             /\ call'[c] # call[c]) =>
              LET g == call[c].name
                  members == {p \in procs : GroupOf(p) = g} IN
              /\ \A p \in AllProcs \ members : proc'[p] = proc[p]
              /\ \A p \in members :
                    (call[c].op = "startgroup" /\ call[c].work[p] = "run"
                       /\ proc'[p] # proc[p]) =>
                        /\ CanStart(proc[p])
                        /\ proc'[p].state \in {STARTING, BACKOFF}
              /\ Returns(c) =>
                    /\ Range(reply'.on) = members
                    /\ Len(reply'.on) = Cardinality(members)
                    /\ (call[c].op = "startgroup" /\ call[c].wait) =>
                          \A p \in members :
                              (/\ ~proc'[p].admin_stopped
                               /\ proc'[p].retry_count = 0
                               /\ proc'[p].state # EXITED) =>
                                  proc'[p].state = RUNNING]_vars

\* start_process_group("g", wait=true) returned with a, the member of g,
\* RUNNING, and c, of another group, never started
C15_Witness ==
    /\ reply.op = "startgroup"
    /\ reply.wait
    /\ reply.on = <<"a">>
    /\ reply.ended = <<RUNNING>>
    /\ proc["a"].state = RUNNING
    /\ proc["c"].state = STOPPED
    /\ proc["c"].start_time = 0

\* C16: after a successful reload every program of the previous
\* configuration that the new one does not have is out of the registry,
\* and if its child is alive the process was issued a stop (it is STOPPING
\* with admin_stopped set)
C16_RemovedAreStoppedAndUnregistered ==
    [][(reply'.op = "reload" /\ reply'.success) =>
          \A p \in DOMAIN config \ DOMAIN config' :
             /\ p \notin procs'
             /\ (p \in procs /\ proc'[p].pid > 0) =>
                   (proc'[p].admin_stopped /\ proc'[p].state = STOPPING)]_vars

\* C17: after a successful reload the registry holds, for every program of
\* both configurations whose descriptor changed and whose old Process had a
\* child, a Process built from the new descriptor that is not the old one
\* (the old child is not the child of the registered Process)
C17_ChangedAreReplaced ==
    [][(reply'.op = "reload" /\ reply'.success) =>
          \A p \in DOMAIN config \cap DOMAIN config' :
             (config'[p] # config[p] /\ p \in procs /\ proc[p].pid > 0) =>
                /\ p \in procs'
                /\ cfg'[p] = config'[p]
                /\ proc'[p].pid # proc[p].pid]_vars

\* C18, as stated: a send_process_stdin naming no registered process
\* returns NOT_RUNNING; one that returns while the named process does not
\* exist or is not RUNNING reports no success and has written nothing; and
\* one that reports Success has written to the stdin of a RUNNING process
C18_StdinOnlyWhenRunning ==
    [][reply'.op = "stdin" =>
          /\ reply'.on = <<>> => reply'.err = "NOT_RUNNING"
          /\ (reply'.on = <<>> \/ proc[Head(reply'.on)].state # RUNNING) =>
                (~reply'.success /\ reply'.ended = <<>>)
          /\ reply'.success => reply'.ended = <<RUNNING>>]_vars

\* C18: send_process_stdin goes on to the write only for a registered
\* process whose state it read as RUNNING; when the process does not exist
\* or that read is not RUNNING it returns NOT_RUNNING, reports no success
\* and writes nothing; it reports Success only when the write succeeded,
\* on a process that has a child (which was RUNNING when its state was read
\* and may have left RUNNING since)
C18_StdinOnlyIfReadRunning ==
    [][\A c \in Clients :
          /\ (call[c].pc = "idle" /\ call'[c].pc = "checked") =>
                /\ Head(call'[c].on) \in procs
                /\ proc[Head(call'[c].on)].state = RUNNING
          /\ (call[c].pc = "idle" /\ reply'.op = "stdin" /\ call' = call) =>
                /\ reply'.on = <<>> \/ proc[Head(reply'.on)].state # RUNNING
                /\ reply'.err = "NOT_RUNNING"
                /\ ~reply'.success
                /\ reply'.ended = <<>>
          /\ (reply'.op = "stdin" /\ reply'.success) =>
                /\ \E d \in Clients : call[d].pc = "checked" /\ call'[d].pc = "idle"
                /\ reply'.ended # <<>>
                /\ reply'.ended[1] \in Alive
                /\ reply'.err = "nil"]_vars

\* a send_process_stdin reported Success for a write to a process that was
\* stopped after its state was read as RUNNING
C18_Witness ==
    /\ reply.op = "stdin"
    /\ reply.success
    /\ reply.ended = <<STOPPING>>
    /\ proc["a"].state = STOPPING

\* C19: when the supervisor exits on SIGINT or SIGTERM, every process of
\* the active supervisor instance is in a terminal non-running state
C19_ExitsAfterActiveStopped ==
    [][(~sup.exited /\ sup'.exited) =>
          \A p \in procs : proc[p].state \notin Alive]_vars

C21_RestartStopsOnceAndRunsAnew ==
    /\ [][/\ (sup.pos = "serving" /\ sup'.pos = "stopping") =>
                (sup.restarting /\ sup'.gen = sup.gen)
          /\ sup'.gen # sup.gen =>
                /\ sup.restarting
                /\ sup.pos = "stopping"
                /\ sup'.gen = sup.gen + 1
                /\ ~sup'.restarting
                /\ sup'.pos = "serving"
                /\ \A p \in procs : ~proc'[p].admin_stopped /\ proc'[p].sent = 0
          /\ (sup'.gen = sup.gen /\ sup.pos = "stopping") => sup'.pos = "stopping"
          /\ ~sup.restarting =>
                \A p \in procs : proc'[p].admin_stopped = proc[p].admin_stopped
                                  \/ proc'[p] = [proc[p] EXCEPT !.admin_stopped = FALSE]
                                  \/ ~proc'[p].admin_stopped]_vars
    /\ \A g \in 1..MaxRestarts :
          (sup.gen = g /\ sup.restarting) ~> (sup.gen = g + 1 /\ ~sup.restarting)

\* the supervisor was restarted and the program of its second instance runs
C21_Witness ==
    /\ sup.gen = 2
    /\ ~sup.restarting
    /\ sup.pos = "serving"
    /\ proc["a"].state = RUNNING

C23_ReloadStepsInOrder ==
    /\ [](\A c \in Clients : (call[c].op = "reload" /\ call[c].loads) =>
            LET log == call[c].log
                At(kind) == {i \in 1..Len(log) : log[i][1] = kind}
                Entries(kind) == {log[i][2] : i \in At(kind)} IN
            /\ \A i \in At("listen"), j \in At("create") : i < j
            /\ call[c].pc # "listeners" => Entries("listen") = call[c].listeners
            /\ \A i \in At("signal"), j \in At("autostart") \cup At("swept") : i < j
            /\ At("swept") # {} =>
                  Entries("signal") = {call[c].servers[i] : i \in DOMAIN call[c].servers}
            /\ \A i \in At("create") \cup At("autostart"), j \in At("swept") : i < j
            /\ call[c].pc = "removal" <=> At("swept") # {})
    /\ [][\A p \in FileNames :
            /\ (p \notin procs /\ p \in procs') =>
                  \E c \in Clients :
                     /\ call[c].op = "reload" /\ call[c].loads
                     /\ call[c].listeners \subseteq procs
                     /\ \A l \in call[c].listeners :
                           \E i \in 1..Len(call[c].log) : call[c].log[i] = <<"listen", l>>
            /\ (proc[p].state # STARTING /\ proc'[p].state = STARTING) =>
                  \E c \in Clients :
                     /\ call[c].op = "reload" /\ call[c].loads
                     /\ \A i \in DOMAIN call[c].servers :
                           \E j \in 1..Len(call[c].log) :
                              call[c].log[j] = <<"signal", call[c].servers[i]>>
            /\ (~proc[p].admin_stopped /\ proc'[p].admin_stopped) =>
                  \E c \in Clients :
                     /\ call[c].op = "reload" /\ call[c].pc = "removal"
                     /\ call[c].loads =>
                           \E j \in 1..Len(call[c].log) :
                              call[c].log[j] = <<"swept", "">>]_vars

\* a successful Reload at its removal loop: the listener was started, then
\* program a created, then both servers signalled, then a started
C23_Witness ==
    /\ call["c1"].op = "reload"
    /\ call["c1"].loads
    /\ call["c1"].pc = "removal"
    /\ call["c1"].log = <<<<"listen", "c">>, <<"create", "a">>,
                          <<"signal", "inet">>, <<"signal", "unix">>,
                          <<"autostart", "a">>, <<"swept", "">>>>
    /\ proc["a"].state \in {STARTING, RUNNING}

\* C24: every ProcessInfo that get_process_info or get_all_process_info
\* returns has the Statename of its State code, and a Pid above 0 exactly
\* when its State is STARTING, RUNNING or STOPPING
C24_InfoIsOneSnapshot ==
    (reply.op \in {"info", "allinfo"} /\ reply.success) =>
       \A i \in 1..Len(reply.infos) :
          /\ reply.infos[i].statename =
                String(CHOOSE s \in States : StateCode[s] = reply.infos[i].state)
          /\ reply.infos[i].pid > 0 <=>
                reply.infos[i].state \in {StateCode[s] : s \in Alive}

\* C25: startHTTPServer returns only when the started-callback of every
\* configured server was invoked; a callback signals only while the caller
\* is waiting on the condition, so the wakeup is not lost; and as long as
\* the callback of a launched server is not invoked, startHTTPServer stays
\* blocked at that server and Reload does not return
C25_StartedCallbackWakesCaller ==
    /\ [](\A c \in Clients : call[c].op = "reload" =>
            /\ call[c].srv \in {"locked", "signalled"} =>
                  (call[c].pc = "waiting" /\ call[c].lock = "server")
            /\ call[c].srv = "locked" => call[c].waiting
            /\ (call[c].pc = "waiting" /\ call[c].srv \in {"signalled", "done"}) =>
                  call[c].woken)
    /\ [][\A c \in Clients : (call[c].op = "reload" /\ call'[c].op = "reload") =>
            /\ (call[c].srv = "locked" /\ call'[c].srv = "signalled") =>
                  (call[c].waiting /\ call'[c].woken)
            /\ (call[c].pc = "http" /\ call'[c].pc = "autostart") =>
                  \A i \in DOMAIN call[c].servers :
                     \E j \in 1..Len(call[c].log) :
                        call[c].log[j] = <<"signal", call[c].servers[i]>>
            /\ (call[c].pc = "waiting" /\ call'[c].pc # "waiting") =>
                  /\ call[c].srv = "done"
                  /\ call'[c].pc = "http"
                  /\ call'[c].todo = Tail(call[c].todo)
            /\ (call[c].pc \in {"launched", "waiting"} /\ call'[c].srv = "launched") =>
                  (call'[c].pc \in {"launched", "waiting"} /\ reply'.op # "reload")]_vars

\* both configured servers have invoked their callbacks and startHTTPServer
\* has returned, still holding the lock of the last condition
C25_Witness ==
    /\ call["c1"].op = "reload"
    /\ call["c1"].pc = "autostart"
    /\ call["c1"].servers = Servers
    /\ call["c1"].srv = "done"
    /\ call["c1"].lock = "caller"
    /\ \E i, j \in 1..Len(call["c1"].log) :
          /\ i < j
          /\ call["c1"].log[i] = <<"signal", "inet">>
          /\ call["c1"].log[j] = <<"signal", "unix">>

====
